---- MODULE Spec2Model ----
(***************************************************************************)
(* Model of the FindReplace component (src/src/components/FindReplace.tsx): *)
(* the select -> scan -> preview -> apply workflow, the per-entry ledger of *)
(* selected field changes (selectedChanges), and the asynchronous boundary  *)
(* calls (content types, entries, scan, preview, apply) whose responses may *)
(* arrive after any amount of further user input.                           *)
(*                                                                         *)
(* Every user event is one action: the event handler up to its first await, *)
(* together with the effect hooks the resulting render runs.  Every         *)
(* resolution of a call is one action: the rest of the handler (try body    *)
(* after the await, or catch, and then finally).                            *)
(***************************************************************************)
EXTENDS Naturals, Sequences, FiniteSets

\* ------------------------------------------------------------------ bounds

\* Most boundary calls that may be outstanding together in the model.
MaxInFlight == 2
\* Most matches in one scan response.
MaxMatches == 1

\* ----------------------------------------------------------------- state

VARIABLES
  contentTypes,         \* useState<ContentType[]>([])
  selectedContentType,  \* useState<string>("")
  entries,              \* useState<Entry[]>([]), as the list of uids
  selectedEntries,      \* useState<string[]>([])
  searchQuery,          \* useState("")
  replaceWith,          \* useState("")
  isSmartReplace,       \* useState(false)
  scanResults,          \* useState<ScanResult[]>([])
  previewResults,       \* useState<PreviewResult[]>([])
  applyResults,         \* useState<ApplyResult | null>(null)
  loading,              \* useState(false)
  step,                 \* useState("select")
  selectedChanges,      \* useState<Record<string, string[]>>({})
  inflight,             \* the fetches issued and not yet settled, oldest first
  lastOp,               \* history: the last operation performed
  world                 \* the store the component talks to and what the user types

\* ----------------------------------------------------- the remote store

\* A world fixes what is outside the component: the content types the store
\* lists, the entries of each, the fields of an entry in schema order, the
\* approval flags and the number of matches a response may hold, the texts
\* the user types and whether the user touches the smart mode switch.  It
\* never changes.

\* brandkit_approved?: boolean -- true, false, or the property is absent.
Approvals == {"true", "false", "undefined"}

\* The world of the workflow and the ledger: one content type with one
\* entry, responses with every mix of approved and rejected changes, and a
\* user who types a pattern and a replacement and leaves smart mode alone.
FlowWorld ==
  [categories |-> <<"c1">>,
   entriesOf |-> [ct \in {"c1"} |-> <<"e1">>],
   texts |-> {<<>>, <<" ", "a", " ">>},
   smart |-> FALSE,
   approvals |-> Approvals,
   fields |-> <<"f1", "f2">>,
   maxMatches |-> MaxMatches]

\* The world of the form: texts that are empty, blank or a word, the smart
\* mode switch, and entries of one field whose change is never flagged.
FormWorld ==
  [categories |-> <<"c1">>,
   entriesOf |-> [ct \in {"c1"} |-> <<"e1">>],
   texts |-> {<<>>, <<" ">>, <<" ", "a", " ">>},
   smart |-> TRUE,
   approvals |-> {"undefined"},
   fields |-> <<"f1">>,
   maxMatches |-> MaxMatches]

Worlds == {FlowWorld, FormWorld}

\* The world of two content types, each with an entry of its own.
CategoryWorld ==
  [categories |-> <<"c1", "c2">>,
   entriesOf |-> [ct \in {"c1", "c2"} |-> IF ct = "c1" THEN <<"e1">> ELSE <<"e2">>],
   texts |-> {<<"a">>},
   smart |-> FALSE,
   approvals |-> {"undefined"},
   fields |-> <<"f1">>,
   maxMatches |-> MaxMatches]

\* The world of the scan panel: one content type with two entries of two
\* fields, and scan responses of several matches.
ScanWorld ==
  [categories |-> <<"c1">>,
   entriesOf |-> [ct \in {"c1"} |-> <<"e1", "e2">>],
   texts |-> {<<"a">>},
   smart |-> FALSE,
   approvals |-> {"undefined"},
   fields |-> <<"f1", "f2">>,
   maxMatches |-> MaxMatches + 2]

\* The world of repeated previews: one content type with one entry of two
\* fields, whose changes a response may flag as rejected or leave unflagged.
ReseedWorld ==
  [categories |-> <<"c1">>,
   entriesOf |-> [ct \in {"c1"} |-> <<"e1">>],
   texts |-> {<<"a">>},
   smart |-> FALSE,
   approvals |-> {"false", "undefined"},
   fields |-> <<"f1", "f2">>,
   maxMatches |-> MaxMatches]

\* The world of the ledger operations taken by themselves: one content type
\* with two entries, both of which a preview may list.
LedgerWorld ==
  [categories |-> <<"c1">>,
   entriesOf |-> [ct \in {"c1"} |-> <<"e1", "e2">>],
   texts |-> {<<" ", "a", " ">>},
   smart |-> FALSE,
   approvals |-> Approvals,
   fields |-> <<"f1", "f2">>,
   maxMatches |-> MaxMatches]

\* The content types the store lists, in listing order.
CategoryList == world.categories

\* The entries the store lists for a content type.
EntriesOf(ct) == world.entriesOf[ct]

\* The fields of an entry, in schema order.
FieldName == world.fields

Fields == {FieldName[k] : k \in DOMAIN FieldName}

TitleOf(uid) == <<"title", uid>>

BeforeOf(uid, f) == <<"before", uid, f>>

AfterOf(uid, f) == <<"after", uid, f>>

\* ------------------------------------------------------------- sequences

Range(s) == {s[i] : i \in DOMAIN s}

SeqsUpTo(S, n) == UNION {[1..k -> S] : k \in 0..n}

Injective(s) == \A i, j \in DOMAIN s : s[i] = s[j] => i = j

RemoveAt(s, i) == [k \in 1..(Len(s) - 1) |-> IF k < i THEN s[k] ELSE s[k + 1]]

\* Array.prototype.filter with the predicate "differs from x".
RECURSIVE FilterOut(_, _)
FilterOut(s, x) ==
  IF s = <<>> THEN <<>>
  ELSE IF Head(s) = x THEN FilterOut(Tail(s), x)
       ELSE <<Head(s)>> \o FilterOut(Tail(s), x)

\* Array.prototype.includes.
Includes(s, x) == \E i \in DOMAIN s : s[i] = x

\* ------------------------------------------------------------------ text

\* Text is a sequence of characters; SP is a white-space character.
SP == " "

\* What the user types into the search and replacement inputs.
Texts == world.texts

RECURSIVE TrimStart(_)
TrimStart(s) == IF s # <<>> /\ Head(s) = SP THEN TrimStart(Tail(s)) ELSE s

RECURSIVE TrimEnd(_)
TrimEnd(s) ==
  IF s # <<>> /\ s[Len(s)] = SP THEN TrimEnd(SubSeq(s, 1, Len(s) - 1)) ELSE s

\* String.prototype.trim.
Trim(s) == TrimEnd(TrimStart(s))

\* !s.trim(): the trimmed text is the empty string.
Blank(s) == Trim(s) = <<>>

\* ------------------------------------------------- pure parts of the code

\* Mutant: a change counts as approvable only when flagged true.
ApprovableOnlyIfTrue(c) == c.brandkit_approved = "true"

\* c.brandkit_approved !== false
Approvable(c) == c.brandkit_approved # "false"

\* changes.filter((c) => c.brandkit_approved !== false).map((c) => c.field)
RECURSIVE ApprovableFields(_)
ApprovableFields(changes) ==
  IF changes = <<>> THEN <<>>
  ELSE IF Approvable(Head(changes))
       THEN <<Head(changes).field>> \o ApprovableFields(Tail(changes))
       ELSE ApprovableFields(Tail(changes))

\* { ...obj, [key]: value }
Put(obj, key, value) ==
  [k \in (DOMAIN obj) \cup {key} |-> IF k = key THEN value ELSE obj[k]]

\* obj[key] || []
Get(obj, key) == IF key \in DOMAIN obj THEN obj[key] ELSE <<>>

\* The ledger handlePreview builds from the preview response: the forEach over
\* previewData, started from acc = {}.
RECURSIVE SeedFrom(_, _)
SeedFrom(acc, previewData) ==
  IF previewData = <<>> THEN acc
  ELSE SeedFrom(Put(acc, Head(previewData).entryUid,
                    ApprovableFields(Head(previewData).changes)),
                Tail(previewData))

\* Mutant: the ledger of a preview response, built onto the current ledger.
initialSelectionsOntoCurrent(previewData) == SeedFrom(selectedChanges, previewData)

initialSelections(previewData) == SeedFrom(<<>>, previewData)

\* Mutant: the commit items of one preview entry, walked in the order of the
\* selected field names instead of the order of the changes.
RECURSIVE EntryItemsInLedgerOrder(_, _, _)
EntryItemsInLedgerOrder(entryUid, changes, selectedFieldsForEntry) ==
  IF selectedFieldsForEntry = <<>> THEN <<>>
  ELSE LET f == Head(selectedFieldsForEntry)
           hits == SelectSeq(changes, LAMBDA c : c.field = f)
       IN [k \in DOMAIN hits |->
             [entryUid |-> entryUid, field |-> hits[k].field,
              newValue |-> hits[k].after]]
          \o EntryItemsInLedgerOrder(entryUid, changes, Tail(selectedFieldsForEntry))

\* Mutant: the commit items of one preview entry, every change taken whether
\* its field is selected or not.
EntryItemsIgnoresLedger(entryUid, changes, selectedFieldsForEntry) ==
  [k \in DOMAIN changes |->
     [entryUid |-> entryUid, field |-> changes[k].field,
      newValue |-> changes[k].after]]

\* The inner forEach of handleApply: the commit items of one preview entry.
RECURSIVE EntryItems(_, _, _)
EntryItems(entryUid, changes, selectedFieldsForEntry) ==
  IF changes = <<>> THEN <<>>
  ELSE (IF Includes(selectedFieldsForEntry, Head(changes).field)
        THEN <<[entryUid |-> entryUid,
                field |-> Head(changes).field,
                newValue |-> Head(changes).after]>>
        ELSE <<>>)
       \o EntryItems(entryUid, Tail(changes), selectedFieldsForEntry)

\* Mutant: the commit payload of the first preview entry only.
changesToApplyOfFirstEntry(previews, ledger) ==
  IF previews = <<>> THEN <<>>
  ELSE EntryItems(Head(previews).entryUid, Head(previews).changes,
                  Get(ledger, Head(previews).entryUid))

\* The outer forEach of handleApply: the commit payload.
RECURSIVE changesToApply(_, _)
changesToApply(previews, ledger) ==
  IF previews = <<>> THEN <<>>
  ELSE EntryItems(Head(previews).entryUid, Head(previews).changes,
                  Get(ledger, Head(previews).entryUid))
       \o changesToApply(Tail(previews), ledger)

\* Mutant: the update of handleToggleChangeSelection refuses to select the
\* field of a rejected change of the current preview.
ToggledLedgerChecksPolicy(prev, entryUid, field, checked) ==
  LET currentFields == Get(prev, entryUid)
      rejected == \E i \in DOMAIN previewResults :
                    /\ previewResults[i].entryUid = entryUid
                    /\ \E j \in DOMAIN previewResults[i].changes :
                         /\ previewResults[i].changes[j].field = field
                         /\ ~Approvable(previewResults[i].changes[j])
      newFields == IF checked
                   THEN (IF rejected THEN currentFields
                         ELSE Append(currentFields, field))
                   ELSE FilterOut(currentFields, field)
  IN Put(prev, entryUid, newFields)

\* Mutant: the update of handleToggleChangeSelection replaces the fields of
\* the entry by the toggled one instead of adding it.
ToggledLedgerReplaces(prev, entryUid, field, checked) ==
  LET currentFields == Get(prev, entryUid)
      newFields == IF checked THEN <<field>>
                   ELSE FilterOut(currentFields, field)
  IN Put(prev, entryUid, newFields)

\* handleToggleChangeSelection's state update.
ToggledLedger(prev, entryUid, field, checked) ==
  LET currentFields == Get(prev, entryUid)
      newFields == IF checked THEN Append(currentFields, field)
                   ELSE FilterOut(currentFields, field)
  IN Put(prev, entryUid, newFields)

\* Mutant: the update of handleSelectAllForEntry takes the fields of all
\* changes, rejected ones included.
SelectAllLedgerTakesAll(prev, entry, checked) ==
  Put(prev, entry.entryUid,
      IF checked THEN [k \in DOMAIN entry.changes |-> entry.changes[k].field]
      ELSE <<>>)

\* Mutant: the update of handleSelectAllForEntry starts from an empty ledger
\* instead of the previous one.
SelectAllLedgerDropsOthers(prev, entry, checked) ==
  Put(<<>>, entry.entryUid,
      IF checked THEN ApprovableFields(entry.changes) ELSE <<>>)

\* handleSelectAllForEntry's state update.
SelectAllLedger(prev, entry, checked) ==
  Put(prev, entry.entryUid,
      IF checked THEN ApprovableFields(entry.changes) ELSE <<>>)

\* --------------------------------------------- what the store may answer

\* Strictly increasing index sequences over 1..n, of length 1..n.
IncreasingSeqs(n) ==
  {s \in SeqsUpTo(1..n, n) :
     /\ s # <<>>
     /\ \A i \in 1..(Len(s) - 1) : s[i] < s[i + 1]}

\* The change lists of one preview entry: one change per field, fields in
\* schema order, each with any approval flag.
ChangeLists(uid) ==
  UNION {
    {[i \in DOMAIN ks |->
        [field |-> FieldName[ks[i]],
         before |-> BeforeOf(uid, FieldName[ks[i]]),
         after |-> AfterOf(uid, FieldName[ks[i]]),
         brandkit_approved |-> ap[i]]] : ap \in [DOMAIN ks -> world.approvals]}
    : ks \in IncreasingSeqs(Len(FieldName))}

\* data.preview of a 2xx preview response: at most one PreviewResult per
\* requested entry, in any order.
PreviewBodies(entryUids) ==
  UNION {
    {[i \in DOMAIN us |->
        [entryUid |-> us[i], title |-> TitleOf(us[i]), changes |-> cl[i]]]
       : cl \in {f \in [DOMAIN us -> UNION {ChangeLists(u) : u \in Range(us)}] :
                   \A i \in DOMAIN us : f[i] \in ChangeLists(us[i])}}
    : us \in {s \in SeqsUpTo(Range(entryUids), Len(entryUids)) : Injective(s)}}

\* data.matches of a 2xx scan response: matches in requested entries.
ScanBodies(entryUids) ==
  SeqsUpTo({[entryUid |-> u, field |-> f, before |-> BeforeOf(u, f),
             title |-> TitleOf(u)] : u \in Range(entryUids), f \in Fields},
           world.maxMatches)

\* The entryUids of a commit payload, each once, in order of first appearance.
RECURSIVE UidsOf(_)
UidsOf(changes) ==
  IF changes = <<>> THEN <<>>
  ELSE <<Head(changes).entryUid>>
       \o FilterOut(UidsOf(Tail(changes)), Head(changes).entryUid)

\* The JSON body of an apply response.  A 2xx body is an ApplyResult with one
\* record per submitted entry; totalUpdated is the store's own count.  A
\* non-2xx body is an error object.
ApplyBodies(changes) ==
  LET us == UidsOf(changes)
  IN {[totalUpdated |-> n,
       results |-> [i \in DOMAIN us |->
                      [entryUid |-> us[i], title |-> TitleOf(us[i]),
                       status |-> st[i]]]]
        : n \in 0..Len(us), st \in [DOMAIN us -> {"updated", "failed"}]}

ErrorBody == [error |-> "request failed"]

vars == <<contentTypes, selectedContentType, entries, selectedEntries,
          searchQuery, replaceWith, isSmartReplace, scanResults,
          previewResults, applyResults, loading, step, selectedChanges,
          inflight, lastOp, world>>

form == <<contentTypes, selectedContentType, entries, selectedEntries,
          searchQuery, replaceWith, isSmartReplace, world>>

NULL == [null |-> TRUE]

\* The workflow state and the ledger, as one value.
Workflow ==
  [step |-> step, scanResults |-> scanResults,
   previewResults |-> previewResults, applyResults |-> applyResults,
   selectedChanges |-> selectedChanges]

\* The workflow state and the ledger of the initial render and of resetFlow.
EmptyWorkflow ==
  [step |-> "select", scanResults |-> <<>>, previewResults |-> <<>>,
   applyResults |-> NULL, selectedChanges |-> <<>>]

WorkflowKinds == {"scan", "preview", "apply"}

\* History kept with a scan, preview or apply call: the workflow state when
\* the call was requested (snap), whether resetFlow ran since (reset) and
\* whether the user changed the ledger since (edited).
Ghost == [snap |-> Workflow, reset |-> FALSE, edited |-> FALSE]

Mark(c, field) ==
  IF c.kind \in WorkflowKinds
  THEN [c EXCEPT !.ghost = [@ EXCEPT ![field] = TRUE]]
  ELSE c

MarkAll(field) == [i \in DOMAIN inflight |-> Mark(inflight[i], field)]

CanIssue == Len(inflight) < MaxInFlight

Init ==
  /\ contentTypes = <<>>
  /\ selectedContentType = ""
  /\ entries = <<>>
  /\ selectedEntries = <<>>
  /\ searchQuery = <<>>
  /\ replaceWith = <<>>
  /\ isSmartReplace = FALSE
  /\ scanResults = <<>>
  /\ previewResults = <<>>
  /\ applyResults = NULL
  /\ loading = FALSE
  /\ step = "select"
  /\ selectedChanges = <<>>
  /\ inflight = <<[kind |-> "contentTypes"]>>
  /\ lastOp = "mount"
  /\ world \in Worlds

\* ------------------------------------------------------- loading the lists

\* loadContentTypes, after the await: the store's list is stored.
loadContentTypesOk ==
  \E i \in DOMAIN inflight :
    /\ inflight[i].kind = "contentTypes"
    /\ contentTypes' = CategoryList
    /\ inflight' = RemoveAt(inflight, i)
    /\ lastOp' = "contentTypesOk"
    /\ UNCHANGED <<world, selectedContentType, entries, selectedEntries, searchQuery,
                   replaceWith, isSmartReplace, scanResults, previewResults,
                   applyResults, loading, step, selectedChanges>>

\* loadContentTypes, catch: a toast only.
loadContentTypesFail ==
  \E i \in DOMAIN inflight :
    /\ inflight[i].kind = "contentTypes"
    /\ inflight' = RemoveAt(inflight, i)
    /\ lastOp' = "contentTypesFail"
    /\ UNCHANGED <<form, scanResults, previewResults, applyResults, loading,
                   step, selectedChanges>>

\* The content type select: setSelectedContentType(ct), then the effect on
\* selectedContentType, which issues loadEntries and clears selectedEntries.
SelectContentType ==
  \E k \in DOMAIN contentTypes :
    /\ contentTypes[k] # selectedContentType
    /\ CanIssue
    /\ selectedContentType' = contentTypes[k]
    /\ selectedEntries' = <<>>
    /\ inflight' = Append(inflight,
                          [kind |-> "entries", contentTypeUid |-> contentTypes[k]])
    /\ lastOp' = "selectContentType"
    /\ UNCHANGED <<world, contentTypes, entries, searchQuery, replaceWith,
                   isSmartReplace, scanResults, previewResults, applyResults,
                   loading, step, selectedChanges>>

\* loadEntries, after the await: setEntries(data.entries || []).
loadEntriesOk ==
  \E i \in DOMAIN inflight :
    /\ inflight[i].kind = "entries"
    /\ entries' = EntriesOf(inflight[i].contentTypeUid)
    /\ inflight' = RemoveAt(inflight, i)
    /\ lastOp' = "entriesOk"
    /\ UNCHANGED <<world, contentTypes, selectedContentType, selectedEntries,
                   searchQuery, replaceWith, isSmartReplace, scanResults,
                   previewResults, applyResults, loading, step, selectedChanges>>

\* loadEntries, catch: a toast only.
loadEntriesFail ==
  \E i \in DOMAIN inflight :
    /\ inflight[i].kind = "entries"
    /\ inflight' = RemoveAt(inflight, i)
    /\ lastOp' = "entriesFail"
    /\ UNCHANGED <<form, scanResults, previewResults, applyResults, loading,
                   step, selectedChanges>>

\* ------------------------------------------------------------- the form

isAllSelected == Len(entries) > 0 /\ Len(selectedEntries) = Len(entries)

\* The "select all" checkbox, rendered when entries.length > 0; a click
\* passes the opposite of what it shows.
handleSelectAll ==
  /\ Len(entries) > 0
  /\ selectedEntries' = IF ~isAllSelected THEN entries ELSE <<>>
  /\ lastOp' = "edit"
  /\ UNCHANGED <<world, contentTypes, selectedContentType, entries, searchQuery,
                 replaceWith, isSmartReplace, scanResults, previewResults,
                 applyResults, loading, step, selectedChanges, inflight>>

\* The checkbox of one listed entry; a click passes the opposite of
\* selectedEntries.includes(entry.uid).
handleSelectEntry ==
  \E k \in DOMAIN entries :
    LET entryUid == entries[k]
        checked == ~Includes(selectedEntries, entryUid)
    IN /\ selectedEntries' = IF checked THEN Append(selectedEntries, entryUid)
                             ELSE FilterOut(selectedEntries, entryUid)
       /\ lastOp' = "edit"
       /\ UNCHANGED <<world, contentTypes, selectedContentType, entries, searchQuery,
                      replaceWith, isSmartReplace, scanResults, previewResults,
                      applyResults, loading, step, selectedChanges, inflight>>

setSearchQuery ==
  \E t \in Texts :
    /\ t # searchQuery
    /\ searchQuery' = t
    /\ lastOp' = "edit"
    /\ UNCHANGED <<world, contentTypes, selectedContentType, entries, selectedEntries,
                   replaceWith, isSmartReplace, scanResults, previewResults,
                   applyResults, loading, step, selectedChanges, inflight>>

setReplaceWith ==
  \E t \in Texts :
    /\ t # replaceWith
    /\ replaceWith' = t
    /\ lastOp' = "edit"
    /\ UNCHANGED <<world, contentTypes, selectedContentType, entries, selectedEntries,
                   searchQuery, isSmartReplace, scanResults, previewResults,
                   applyResults, loading, step, selectedChanges, inflight>>

setIsSmartReplace ==
  /\ world.smart
  /\ isSmartReplace' = ~isSmartReplace
  /\ lastOp' = "edit"
  /\ UNCHANGED <<world, contentTypes, selectedContentType, entries, selectedEntries,
                 searchQuery, replaceWith, scanResults, previewResults,
                 applyResults, loading, step, selectedChanges, inflight>>

\* ------------------------------------------------------------------ scan

\* Mutant: the "Scan Content" button ignores the loading flag.
ScanDisabledIgnoresLoading ==
  \/ selectedContentType = ""
  \/ Blank(searchQuery)
  \/ Len(selectedEntries) = 0

\* The disabled attribute of the "Scan Content" button.
ScanDisabled ==
  \/ selectedContentType = ""
  \/ Blank(searchQuery)
  \/ Len(selectedEntries) = 0
  \/ loading

\* Mutant: the early return of handleScan without the trim.
ScanRefusedWithoutTrim ==
  \/ selectedContentType = ""
  \/ searchQuery = <<>>
  \/ Len(selectedEntries) = 0

\* The early return of handleScan.
ScanRefused ==
  \/ selectedContentType = ""
  \/ Blank(searchQuery)
  \/ Len(selectedEntries) = 0

\* A click on "Scan Content": handleScan up to its fetch.
handleScan ==
  /\ ~ScanDisabled
  /\ CanIssue
  /\ IF ScanRefused
     THEN /\ lastOp' = "scanRefused"
          /\ UNCHANGED <<form, scanResults, previewResults, applyResults,
                         loading, step, selectedChanges, inflight>>
     ELSE /\ loading' = TRUE
          /\ previewResults' = <<>>
          /\ applyResults' = NULL
          /\ inflight' = Append(inflight,
               [kind |-> "scan",
                contentTypeUid |-> selectedContentType,
                query |-> searchQuery,
                entryUids |-> selectedEntries,
                ghost |-> Ghost])
          /\ lastOp' = "scanRequested"
          /\ UNCHANGED <<form, scanResults, step, selectedChanges>>

\* Mutant: the continuation of handleScan also empties the entry selection.
scanOkClearsSelection ==
  \E i \in DOMAIN inflight :
    /\ inflight[i].kind = "scan"
    /\ \E matches \in ScanBodies(inflight[i].entryUids) :
         scanResults' = matches
    /\ step' = "scan"
    /\ loading' = FALSE
    /\ selectedEntries' = <<>>
    /\ inflight' = RemoveAt(inflight, i)
    /\ lastOp' = "scanOk"
    /\ UNCHANGED <<world, contentTypes, selectedContentType, entries,
                   searchQuery, replaceWith, isSmartReplace, previewResults,
                   applyResults, selectedChanges>>

\* handleScan after a 2xx response with a JSON body.
scanOk ==
  \E i \in DOMAIN inflight :
    /\ inflight[i].kind = "scan"
    /\ \E matches \in ScanBodies(inflight[i].entryUids) :
         scanResults' = matches
    /\ step' = "scan"
    /\ loading' = FALSE
    /\ inflight' = RemoveAt(inflight, i)
    /\ lastOp' = "scanOk"
    /\ UNCHANGED <<form, previewResults, applyResults, selectedChanges>>

\* handleScan when fetch rejects, the status is not 2xx or the body is not
\* JSON: catch (a toast), then finally.
scanFail ==
  \E i \in DOMAIN inflight :
    /\ inflight[i].kind = "scan"
    /\ loading' = FALSE
    /\ inflight' = RemoveAt(inflight, i)
    /\ lastOp' = "scanFail"
    /\ UNCHANGED <<form, scanResults, previewResults, applyResults, step,
                   selectedChanges>>

\* Mutant: the reduce of groupedScanResults opens a group for every match.
RECURSIVE GroupIntoNeverMerges(_, _)
GroupIntoNeverMerges(acc, results) ==
  IF results = <<>> THEN acc
  ELSE LET result == Head(results)
       IN GroupIntoNeverMerges(
            Append(acc, [title |-> result.title, uid |-> result.entryUid,
                         matches |-> <<result>>]),
            Tail(results))

\* The reduce of groupedScanResults; acc holds the groups in the order their
\* keys were added, which is the order Object.values lists them in.
RECURSIVE GroupInto(_, _)
GroupInto(acc, results) ==
  IF results = <<>> THEN acc
  ELSE LET result == Head(results)
           at == {k \in DOMAIN acc : acc[k].uid = result.entryUid}
       IN IF at = {}
          THEN GroupInto(
                 Append(acc, [title |-> result.title, uid |-> result.entryUid,
                              matches |-> <<result>>]),
                 Tail(results))
          ELSE GroupInto(
                 [k \in DOMAIN acc |->
                    IF k \in at
                    THEN [acc[k] EXCEPT !.matches = Append(@, result)]
                    ELSE acc[k]],
                 Tail(results))

\* Object.values(groupedScanResults)
groupedScanResults == GroupInto(<<>>, scanResults)

\* "Found {scanResults.length} instances of your search query."
scanResultsCount == Len(scanResults)

\* --------------------------------------------------------------- preview

\* The disabled attribute of the "Preview Changes" button.
PreviewDisabled ==
  \/ selectedContentType = ""
  \/ Blank(searchQuery)
  \/ Blank(replaceWith)
  \/ Len(selectedEntries) = 0
  \/ loading

\* Mutant: the early return of handlePreview without the test of the
\* replacement text.
PreviewRefusedIgnoresReplacement ==
  \/ selectedContentType = ""
  \/ Blank(searchQuery)
  \/ Len(selectedEntries) = 0

\* The early return of handlePreview.
PreviewRefused ==
  \/ selectedContentType = ""
  \/ Blank(searchQuery)
  \/ Blank(replaceWith)
  \/ Len(selectedEntries) = 0

\* A click on "Preview Changes": handlePreview up to its fetch.
handlePreview ==
  /\ ~PreviewDisabled
  /\ CanIssue
  /\ IF PreviewRefused
     THEN /\ lastOp' = "previewRefused"
          /\ UNCHANGED <<form, scanResults, previewResults, applyResults,
                         loading, step, selectedChanges, inflight>>
     ELSE /\ loading' = TRUE
          /\ scanResults' = <<>>
          /\ applyResults' = NULL
          /\ inflight' = Append(inflight,
               [kind |-> "preview",
                contentTypeUid |-> selectedContentType,
                query |-> searchQuery,
                replaceWith |-> replaceWith,
                entryUids |-> selectedEntries,
                smart |-> isSmartReplace,
                ghost |-> Ghost])
          /\ lastOp' = "previewRequested"
          /\ UNCHANGED <<form, previewResults, step, selectedChanges>>

\* handlePreview after a 2xx response with a JSON body.
previewOk ==
  \E i \in DOMAIN inflight :
    /\ inflight[i].kind = "preview"
    /\ \E previewData \in PreviewBodies(inflight[i].entryUids) :
         /\ previewResults' = previewData
         /\ selectedChanges' = initialSelections(previewData)
    /\ step' = "preview"
    /\ loading' = FALSE
    /\ inflight' = RemoveAt(inflight, i)
    /\ lastOp' = "previewOk"
    /\ UNCHANGED <<form, scanResults, applyResults>>

\* handlePreview when fetch rejects, the status is not 2xx or the body is not
\* JSON: catch (a toast), then finally.
previewFail ==
  \E i \in DOMAIN inflight :
    /\ inflight[i].kind = "preview"
    /\ loading' = FALSE
    /\ inflight' = RemoveAt(inflight, i)
    /\ lastOp' = "previewFail"
    /\ UNCHANGED <<form, scanResults, previewResults, applyResults, step,
                   selectedChanges>>

\* ------------------------------------------------------ the preview panel

\* Mutant: a click on the checkbox of one change always passes true.
handleToggleChangeSelectionAlwaysOn ==
  /\ step = "preview"
  /\ \E i \in DOMAIN previewResults :
       \E j \in DOMAIN previewResults[i].changes :
         LET entryUid == previewResults[i].entryUid
             change == previewResults[i].changes[j]
         IN /\ Approvable(change)
            /\ selectedChanges' =
                 ToggledLedger(selectedChanges, entryUid, change.field, TRUE)
  /\ inflight' = MarkAll("edited")
  /\ lastOp' = "toggle"
  /\ UNCHANGED <<form, scanResults, previewResults, applyResults, loading, step>>

\* A click on the checkbox of one change.  The panel is rendered in step
\* preview, the checkbox only for a change that is not rejected, and a click
\* passes the opposite of selectedChanges[entryUid]?.includes(field).
handleToggleChangeSelection ==
  /\ step = "preview"
  /\ \E i \in DOMAIN previewResults :
       \E j \in DOMAIN previewResults[i].changes :
         LET entryUid == previewResults[i].entryUid
             change == previewResults[i].changes[j]
             checked == ~Includes(Get(selectedChanges, entryUid), change.field)
         IN /\ Approvable(change)
            /\ selectedChanges' =
                 ToggledLedger(selectedChanges, entryUid, change.field, checked)
  /\ inflight' = MarkAll("edited")
  /\ lastOp' = "toggle"
  /\ UNCHANGED <<form, scanResults, previewResults, applyResults, loading, step>>

\* selectedChanges[entry.entryUid]?.length || 0
selectedCount(entry) == Len(Get(selectedChanges, entry.entryUid))

totalApprovable(entry) == Len(ApprovableFields(entry.changes))

isAllForEntrySelected(entry) ==
  selectedCount(entry) = totalApprovable(entry) /\ totalApprovable(entry) > 0

\* A click on the "Select All" checkbox of one preview entry, rendered when
\* totalApprovable > 0; a click passes the opposite of what it shows.
handleSelectAllForEntry ==
  /\ step = "preview"
  /\ \E i \in DOMAIN previewResults :
       LET entry == previewResults[i]
       IN /\ totalApprovable(entry) > 0
          /\ selectedChanges' =
               SelectAllLedger(selectedChanges, entry, ~isAllForEntrySelected(entry))
  /\ inflight' = MarkAll("edited")
  /\ lastOp' = "selectAllForEntry"
  /\ UNCHANGED <<form, scanResults, previewResults, applyResults, loading, step>>

\* ----------------------------------------------------------------- apply

\* The "Apply Selected Changes" button is rendered in step preview, with
\* disabled={loading}.
ApplyDisabled == step # "preview" \/ loading

\* Mutant: handleApply without the return of the empty payload.
handleApplySendsEmpty ==
  /\ ~ApplyDisabled
  /\ CanIssue
  /\ loading' = TRUE
  /\ inflight' = Append(inflight,
       [kind |-> "apply",
        contentTypeUid |-> selectedContentType,
        changes |-> changesToApply(previewResults, selectedChanges),
        ghost |-> Ghost])
  /\ lastOp' = "applyRequested"
  /\ UNCHANGED <<form, scanResults, previewResults, applyResults, step,
                 selectedChanges>>

\* A click on "Apply Selected Changes": handleApply up to its fetch, or up to
\* the return of the empty payload.
handleApply ==
  /\ ~ApplyDisabled
  /\ LET payload == changesToApply(previewResults, selectedChanges)
     IN IF Len(payload) = 0
        THEN /\ loading' = FALSE
             /\ lastOp' = "applyEmpty"
             /\ UNCHANGED <<form, scanResults, previewResults, applyResults,
                            step, selectedChanges, inflight>>
        ELSE /\ CanIssue
             /\ loading' = TRUE
             /\ inflight' = Append(inflight,
                  [kind |-> "apply",
                   contentTypeUid |-> selectedContentType,
                   changes |-> payload,
                   ghost |-> Ghost])
             /\ lastOp' = "applyRequested"
             /\ UNCHANGED <<form, scanResults, previewResults, applyResults,
                            step, selectedChanges>>

\* What handleApply does with a response whose body is JSON: lines 383-385
\* read no status.
ApplyStored(i, op, data) ==
  /\ inflight[i].kind = "apply"
  /\ applyResults' = data
  /\ step' = "apply"
  /\ loading' = FALSE
  /\ inflight' = RemoveAt(inflight, i)
  /\ lastOp' = op
  /\ UNCHANGED <<form, scanResults, previewResults, selectedChanges>>

\* handleApply after a 2xx response: the body is an ApplyResult.
applyOk ==
  \E i \in DOMAIN inflight :
    /\ inflight[i].kind = "apply"
    /\ \E data \in ApplyBodies(inflight[i].changes) : ApplyStored(i, "applyOk", data)

\* handleApply after a non-2xx response with a JSON body.
applyNon2xx ==
  \E i \in DOMAIN inflight : ApplyStored(i, "applyNon2xx", ErrorBody)

\* Mutant: the catch of handleApply moves on to the apply stage.
applyFailAdvances ==
  \E i \in DOMAIN inflight :
    /\ inflight[i].kind = "apply"
    /\ loading' = FALSE
    /\ step' = "apply"
    /\ inflight' = RemoveAt(inflight, i)
    /\ lastOp' = "applyFail"
    /\ UNCHANGED <<form, scanResults, previewResults, applyResults,
                   selectedChanges>>

\* handleApply when fetch rejects or the body is not JSON: catch (a toast),
\* then finally.
applyFail ==
  \E i \in DOMAIN inflight :
    /\ inflight[i].kind = "apply"
    /\ loading' = FALSE
    /\ inflight' = RemoveAt(inflight, i)
    /\ lastOp' = "applyFail"
    /\ UNCHANGED <<form, scanResults, previewResults, applyResults, step,
                   selectedChanges>>

\* applyResults.results.filter((r) => r.status === "updated")
updatedEntries(applyResult) ==
  SelectSeq(applyResult.results, LAMBDA r : r.status = "updated")

\* applyResults.results.filter((r) => r.status === "failed")
failedEntries(applyResult) ==
  SelectSeq(applyResult.results, LAMBDA r : r.status = "failed")

\* (data.results || []).filter((r) => r.status === "failed").length
failedCount(data) ==
  IF "results" \in DOMAIN data
  THEN Len(SelectSeq(data.results, LAMBDA r : r.status = "failed"))
  ELSE 0

\* Mutant: the toast reports the number of records with status updated.
applyToastRecounts(data) ==
  [entriesUpdated |-> Len(updatedEntries(data)), failed |-> failedCount(data)]

\* The two numbers of the "Changes Applied" toast.
applyToast(data) ==
  [entriesUpdated |-> data.totalUpdated, failed |-> failedCount(data)]

\* ----------------------------------------------------------------- reset

\* Mutant: resetFlow without setSelectedChanges({}).
resetFlowKeepsLedger ==
  /\ step' = "select"
  /\ selectedContentType' = ""
  /\ entries' = <<>>
  /\ selectedEntries' = <<>>
  /\ scanResults' = <<>>
  /\ previewResults' = <<>>
  /\ applyResults' = NULL
  /\ searchQuery' = <<>>
  /\ replaceWith' = <<>>
  /\ isSmartReplace' = FALSE
  /\ inflight' = MarkAll("reset")
  /\ lastOp' = "reset"
  /\ UNCHANGED <<world, contentTypes, loading, selectedChanges>>

\* Mutant: resetFlow also clears the busy flag.
resetFlowClearsLoading ==
  /\ step' = "select"
  /\ selectedContentType' = ""
  /\ entries' = <<>>
  /\ selectedEntries' = <<>>
  /\ scanResults' = <<>>
  /\ previewResults' = <<>>
  /\ applyResults' = NULL
  /\ searchQuery' = <<>>
  /\ replaceWith' = <<>>
  /\ selectedChanges' = <<>>
  /\ isSmartReplace' = FALSE
  /\ loading' = FALSE
  /\ inflight' = MarkAll("reset")
  /\ lastOp' = "reset"
  /\ UNCHANGED <<world, contentTypes>>

\* A click on "Start Over" or "Start New Search": resetFlow, then the effect
\* on selectedContentType (which, for "", sets entries and selectedEntries to
\* [] again).  Neither button is ever disabled.
resetFlow ==
  /\ step' = "select"
  /\ selectedContentType' = ""
  /\ entries' = <<>>
  /\ selectedEntries' = <<>>
  /\ scanResults' = <<>>
  /\ previewResults' = <<>>
  /\ applyResults' = NULL
  /\ searchQuery' = <<>>
  /\ replaceWith' = <<>>
  /\ selectedChanges' = <<>>
  /\ isSmartReplace' = FALSE
  /\ inflight' = MarkAll("reset")
  /\ lastOp' = "reset"
  /\ UNCHANGED <<world, contentTypes, loading>>

\* --------------------------------------------------------- specification

Next ==
  \/ loadContentTypesOk
  \/ loadContentTypesFail
  \/ SelectContentType
  \/ loadEntriesOk
  \/ loadEntriesFail
  \/ handleSelectAll
  \/ handleSelectEntry
  \/ setSearchQuery
  \/ setReplaceWith
  \/ setIsSmartReplace
  \/ handleScan
  \/ scanOk
  \/ scanFail
  \/ handlePreview
  \/ previewOk
  \/ previewFail
  \/ handleToggleChangeSelection
  \/ handleSelectAllForEntry
  \/ handleApply
  \/ applyOk
  \/ applyNon2xx
  \/ applyFail
  \/ resetFlow

Spec == Init /\ [][Next]_vars

\* --------------------------------------- the ledger operations by themselves

\* Most field names a ledger entry of an initial state holds, and most a
\* toggle may grow it to.
MaxSelected == 2

\* Every ledger over the entries of the world: any entries, each with any
\* short sequence of field names (repeated ones included).
Ledgers ==
  UNION {[D -> SeqsUpTo(Fields, MaxSelected)] :
           D \in SUBSET Range(EntriesOf(CategoryList[1]))}

\* A preview has been loaded and nothing is in flight; the preview list and
\* the ledger are arbitrary.
InitLedger ==
  /\ world = LedgerWorld
  /\ contentTypes = CategoryList
  /\ selectedContentType = CategoryList[1]
  /\ entries = EntriesOf(CategoryList[1])
  /\ selectedEntries = EntriesOf(CategoryList[1])
  /\ searchQuery \in Texts
  /\ replaceWith \in Texts
  /\ isSmartReplace = FALSE
  /\ scanResults = <<>>
  /\ previewResults \in PreviewBodies(selectedEntries)
  /\ applyResults = NULL
  /\ loading = FALSE
  /\ step = "preview"
  /\ selectedChanges \in Ledgers
  /\ inflight = <<>>
  /\ lastOp = "start"

\* handleToggleChangeSelection called with any entry, field and flag, while
\* nothing is in flight.
toggleField ==
  \E entryUid \in Range(entries), field \in Fields, checked \in BOOLEAN :
    /\ inflight = <<>>
    /\ Len(Get(selectedChanges, entryUid)) < MaxSelected \/ ~checked
    /\ selectedChanges' = ToggledLedger(selectedChanges, entryUid, field, checked)
    /\ inflight' = MarkAll("edited")
    /\ lastOp' = "toggleField"
    /\ UNCHANGED <<form, scanResults, previewResults, applyResults, loading, step>>

\* handleSelectAllForEntry called with any preview entry and flag, while
\* nothing is in flight.
selectAllForEntry ==
  \E i \in DOMAIN previewResults, checked \in BOOLEAN :
    /\ inflight = <<>>
    /\ selectedChanges' = SelectAllLedger(selectedChanges, previewResults[i], checked)
    /\ inflight' = MarkAll("edited")
    /\ lastOp' = "selectAllForEntry"
    /\ UNCHANGED <<form, scanResults, previewResults, applyResults, loading, step>>

NextLedger ==
  \/ toggleField
  \/ selectAllForEntry
  \/ handleApply
  \/ applyFail

SpecLedger == InitLedger /\ [][NextLedger]_vars

\* ------------------------------------------ the handlers called by themselves

\* handleScan called whatever the "Scan Content" button shows.
handleScanCalled ==
  /\ CanIssue
  /\ IF ScanRefused
     THEN /\ lastOp' = "scanRefused"
          /\ UNCHANGED <<form, scanResults, previewResults, applyResults,
                         loading, step, selectedChanges, inflight>>
     ELSE /\ loading' = TRUE
          /\ previewResults' = <<>>
          /\ applyResults' = NULL
          /\ inflight' = Append(inflight,
               [kind |-> "scan",
                contentTypeUid |-> selectedContentType,
                query |-> searchQuery,
                entryUids |-> selectedEntries,
                ghost |-> Ghost])
          /\ lastOp' = "scanRequested"
          /\ UNCHANGED <<form, scanResults, step, selectedChanges>>

\* handlePreview called whatever the "Preview Changes" button shows.
handlePreviewCalled ==
  /\ CanIssue
  /\ IF PreviewRefused
     THEN /\ lastOp' = "previewRefused"
          /\ UNCHANGED <<form, scanResults, previewResults, applyResults,
                         loading, step, selectedChanges, inflight>>
     ELSE /\ loading' = TRUE
          /\ scanResults' = <<>>
          /\ applyResults' = NULL
          /\ inflight' = Append(inflight,
               [kind |-> "preview",
                contentTypeUid |-> selectedContentType,
                query |-> searchQuery,
                replaceWith |-> replaceWith,
                entryUids |-> selectedEntries,
                smart |-> isSmartReplace,
                ghost |-> Ghost])
          /\ lastOp' = "previewRequested"
          /\ UNCHANGED <<form, previewResults, step, selectedChanges>>

\* The form in any state the user can bring it to: a content type chosen or
\* not (entries stay listed when their response arrives after a reset), the
\* entry selected or not, any texts, either smart mode.
InitHandlers ==
  /\ world = FormWorld
  /\ contentTypes = CategoryList
  /\ selectedContentType \in {""} \cup Range(CategoryList)
  /\ entries = EntriesOf(CategoryList[1])
  /\ selectedEntries \in {<<>>, entries}
  /\ searchQuery \in Texts
  /\ replaceWith \in Texts
  /\ isSmartReplace \in BOOLEAN
  /\ scanResults = <<>>
  /\ previewResults = <<>>
  /\ applyResults = NULL
  /\ loading = FALSE
  /\ step = "select"
  /\ selectedChanges = <<>>
  /\ inflight = <<>>
  /\ lastOp = "start"

NextHandlers ==
  \/ handleScanCalled
  \/ scanOk
  \/ scanFail
  \/ handlePreviewCalled
  \/ previewOk
  \/ previewFail

SpecHandlers == InitHandlers /\ [][NextHandlers]_vars

\* ---------------------------------------------- previews one after another

\* The form is filled in and the entry is selected; no preview has been
\* requested yet.
InitReseed ==
  /\ world = ReseedWorld
  /\ contentTypes = CategoryList
  /\ selectedContentType = CategoryList[1]
  /\ entries = EntriesOf(CategoryList[1])
  /\ selectedEntries = entries
  /\ searchQuery \in Texts
  /\ replaceWith \in Texts
  /\ isSmartReplace = FALSE
  /\ scanResults = <<>>
  /\ previewResults = <<>>
  /\ applyResults = NULL
  /\ loading = FALSE
  /\ step = "select"
  /\ selectedChanges = <<>>
  /\ inflight = <<>>
  /\ lastOp = "start"

\* handlePreview called again and again, its answers arriving in any order,
\* and the user ticking changes of the preview shown.
NextReseed ==
  \/ handlePreviewCalled
  \/ previewOk
  \/ previewFail
  \/ handleToggleChangeSelection
  \/ handleSelectAllForEntry

SpecReseed == InitReseed /\ [][NextReseed]_vars

\* ------------------------------------------------- the apply summary alone

\* A preview of any shape has been loaded and seeded, and nothing is in
\* flight.
InitSummary ==
  /\ world = LedgerWorld
  /\ contentTypes = CategoryList
  /\ selectedContentType = CategoryList[1]
  /\ entries = EntriesOf(CategoryList[1])
  /\ selectedEntries = EntriesOf(CategoryList[1])
  /\ searchQuery \in Texts
  /\ replaceWith \in Texts
  /\ isSmartReplace = FALSE
  /\ scanResults = <<>>
  /\ previewResults \in PreviewBodies(selectedEntries)
  /\ applyResults = NULL
  /\ loading = FALSE
  /\ step = "preview"
  /\ selectedChanges = initialSelections(previewResults)
  /\ inflight = <<>>
  /\ lastOp = "previewOk"

NextSummary ==
  \/ handleApply
  \/ applyOk
  \/ applyFail

SpecSummary == InitSummary /\ [][NextSummary]_vars

\* ---------------------------------------------------- the scan panel alone

\* The form is filled in and both entries are selected; nothing has been
\* scanned yet.
InitScan ==
  /\ world = ScanWorld
  /\ contentTypes = CategoryList
  /\ selectedContentType = CategoryList[1]
  /\ entries = EntriesOf(CategoryList[1])
  /\ selectedEntries = entries
  /\ searchQuery \in Texts
  /\ replaceWith = <<>>
  /\ isSmartReplace = FALSE
  /\ scanResults = <<>>
  /\ previewResults = <<>>
  /\ applyResults = NULL
  /\ loading = FALSE
  /\ step = "select"
  /\ selectedChanges = <<>>
  /\ inflight = <<>>
  /\ lastOp = "start"

NextScan ==
  \/ handleScan
  \/ scanOk
  \/ scanFail

SpecScan == InitScan /\ [][NextScan]_vars

\* ------------------------------------------- after a preview, two categories

\* A preview requested for the first content type and its entry has just
\* succeeded.
InitAfterPreview ==
  /\ world = CategoryWorld
  /\ contentTypes = CategoryList
  /\ selectedContentType = CategoryList[1]
  /\ entries = EntriesOf(CategoryList[1])
  /\ selectedEntries = entries
  /\ searchQuery \in Texts
  /\ replaceWith \in Texts
  /\ isSmartReplace = FALSE
  /\ scanResults = <<>>
  /\ previewResults \in PreviewBodies(selectedEntries)
  /\ applyResults = NULL
  /\ loading = FALSE
  /\ step = "preview"
  /\ selectedChanges = initialSelections(previewResults)
  /\ inflight = <<>>
  /\ lastOp = "previewOk"

\* What the user can do with the preview shown, short of a new scan or
\* preview and of a reset: change the content type and the entry selection,
\* tick changes, and apply.
NextAfterPreview ==
  \/ SelectContentType
  \/ loadEntriesOk
  \/ loadEntriesFail
  \/ handleSelectAll
  \/ handleSelectEntry
  \/ handleToggleChangeSelection
  \/ handleSelectAllForEntry
  \/ handleApply
  \/ applyOk
  \/ applyFail

SpecAfterPreview == InitAfterPreview /\ [][NextAfterPreview]_vars

\* The component with two content types, from the moment the content types
\* are listed: choosing a content type, entry loads that all succeed,
\* ticking entries, typing the query, and scanning.
InitCategories ==
  /\ world = CategoryWorld
  /\ contentTypes = CategoryList
  /\ selectedContentType = ""
  /\ entries = <<>>
  /\ selectedEntries = <<>>
  /\ searchQuery = <<>>
  /\ replaceWith = <<>>
  /\ isSmartReplace = FALSE
  /\ scanResults = <<>>
  /\ previewResults = <<>>
  /\ applyResults = NULL
  /\ loading = FALSE
  /\ step = "select"
  /\ selectedChanges = <<>>
  /\ inflight = <<>>
  /\ lastOp = "contentTypesOk"

NextCategories ==
  \/ SelectContentType
  \/ loadEntriesOk
  \/ handleSelectAll
  \/ handleSelectEntry
  \/ setSearchQuery
  \/ handleScan
  \/ scanOk
  \/ scanFail

SpecCategories == InitCategories /\ [][NextCategories]_vars

\* ------------------------------------------------------------- the claims

WorkflowCalls == {i \in DOMAIN inflight : inflight[i].kind \in WorkflowKinds}

\* The field names selected for entryUid in a ledger, as a set.
LedgerFields(ledger, entryUid) ==
  IF entryUid \in DOMAIN ledger THEN {ledger[entryUid][k] : k \in DOMAIN ledger[entryUid]}
  ELSE {}

\* C1: after every successful preview, the ledger entry of every PreviewEntry
\* of the response holds exactly, and each once, the field names of that
\* entry's changes whose brandkit_approved is not false; no seeded field name
\* belongs to a rejected change.
C1_SeedIsApprovable ==
  lastOp = "previewOk" =>
    \A i \in DOMAIN previewResults :
      LET entry == previewResults[i]
          notRejected == {entry.changes[j].field : j \in
                            {j \in DOMAIN entry.changes :
                               entry.changes[j].brandkit_approved # "false"}}
      IN /\ entry.entryUid \in DOMAIN selectedChanges
         /\ LedgerFields(selectedChanges, entry.entryUid) = notRejected
         /\ Len(selectedChanges[entry.entryUid]) = Cardinality(notRejected)
         /\ \A j \in DOMAIN entry.changes :
              entry.changes[j].brandkit_approved = "false" =>
                entry.changes[j].field \notin LedgerFields(selectedChanges, entry.entryUid)

\* C1 witness: a preview has just succeeded with an entry that has both a
\* rejected change and a change with no flag.
C1_Witness ==
  /\ lastOp = "previewOk"
  /\ \E i \in DOMAIN previewResults :
       /\ \E j \in DOMAIN previewResults[i].changes :
            previewResults[i].changes[j].brandkit_approved = "false"
       /\ \E j \in DOMAIN previewResults[i].changes :
            previewResults[i].changes[j].brandkit_approved = "undefined"

\* The (entry, change) positions of a preview list whose field name is
\* selected in a ledger.
SelectedPairs(previews, ledger) ==
  {p \in UNION {{<<i, j>> : j \in DOMAIN previews[i].changes} : i \in DOMAIN previews} :
     previews[p[1]].changes[p[2]].field
       \in LedgerFields(ledger, previews[p[1]].entryUid)}

\* Position p comes before position q: earlier entry, or same entry and
\* earlier change.
ComesBefore(p, q) == p[1] < q[1] \/ (p[1] = q[1] /\ p[2] < q[2])

\* payload holds one item per selected position and nothing else, the item
\* of each position at the rank of that position.
IsCommitPayload(payload, previews, ledger) ==
  LET pairs == SelectedPairs(previews, ledger)
      rank(p) == Cardinality({q \in pairs : ComesBefore(q, p)}) + 1
  IN /\ Len(payload) = Cardinality(pairs)
     /\ \A p \in pairs :
          payload[rank(p)] =
            [entryUid |-> previews[p[1]].entryUid,
             field |-> previews[p[1]].changes[p[2]].field,
             newValue |-> previews[p[1]].changes[p[2]].after]

\* C2: the commit payload holds exactly one item {entryUid, field, newValue =
\* after} for every change of every preview entry whose field is in the
\* ledger entry of that entryUid, in preview entry order and then change
\* order: of the current state, and of every apply call sent.
C2_PayloadIsSelection ==
  /\ IsCommitPayload(changesToApply(previewResults, selectedChanges),
                     previewResults, selectedChanges)
  /\ \A k \in DOMAIN inflight :
       inflight[k].kind = "apply" =>
         IsCommitPayload(inflight[k].changes,
                         inflight[k].ghost.snap.previewResults,
                         inflight[k].ghost.snap.selectedChanges)

\* C2 witness: an apply call was just sent whose payload has items of two
\* entries, while one change of the preview was left out and the ledger lists
\* the fields of one entry in another order than the preview does.
C2_Witness ==
  /\ lastOp = "applyRequested"
  /\ \E k \in DOMAIN inflight :
       /\ inflight[k].kind = "apply"
       /\ Cardinality({inflight[k].changes[n].entryUid : n \in DOMAIN inflight[k].changes}) = 2
       /\ Len(inflight[k].changes) = 3
  /\ \E i \in DOMAIN previewResults :
       /\ Len(previewResults[i].changes) = 2
       /\ previewResults[i].entryUid \in DOMAIN selectedChanges
       /\ selectedChanges[previewResults[i].entryUid]
            = <<previewResults[i].changes[2].field, previewResults[i].changes[1].field>>

\* C3: an apply request with an empty payload issues no call, leaves step,
\* preview results, apply results and ledger as they were and ends with
\* loading false; an apply call is issued only for a non-empty payload, and
\* the step becomes apply only when such a call is answered.
C3_ApplyOnlyNonEmpty ==
  [][/\ lastOp' = "applyEmpty" =>
          /\ SelectedPairs(previewResults, selectedChanges) = {}
          /\ UNCHANGED <<step, previewResults, applyResults, selectedChanges,
                         inflight>>
          /\ loading' = FALSE
     /\ lastOp' = "applyRequested" =>
          /\ SelectedPairs(previewResults, selectedChanges) # {}
          /\ Len(inflight') = Len(inflight) + 1
          /\ inflight'[Len(inflight')].kind = "apply"
          /\ inflight'[Len(inflight')].changes # <<>>
     /\ Len(inflight') > Len(inflight) /\ inflight'[Len(inflight')].kind = "apply" =>
          lastOp' = "applyRequested"
     /\ step # "apply" /\ step' = "apply" =>
          \E i \in DOMAIN inflight :
            /\ inflight[i].kind = "apply"
            /\ inflight[i].changes # <<>>
            /\ inflight' = RemoveAt(inflight, i)
    ]_vars

\* C3 witness: apply was requested with every change of a non-empty preview
\* deselected, and nothing was sent.
C3_Witness ==
  /\ lastOp = "applyEmpty"
  /\ previewResults # <<>>
  /\ \E i \in DOMAIN previewResults : totalApprovable(previewResults[i]) > 0
  /\ WorkflowCalls = {}
  /\ ~loading

\* C4: the response of a scan, preview or apply call that was in flight when
\* the workflow was reset changes neither step, scan results, preview
\* results, apply results nor the ledger.
C4_LateResponseDiscarded ==
  [][\A i \in DOMAIN inflight :
       (/\ inflight[i].kind \in WorkflowKinds
        /\ inflight[i].ghost.reset
        /\ inflight' = RemoveAt(inflight, i))
       => UNCHANGED <<step, scanResults, previewResults, applyResults,
                      selectedChanges>>
    ]_vars

\* C5: when a scan, preview or apply call fails, step, scan results, preview
\* results, apply results and ledger are what they were when the action was
\* requested (the user having changed nothing in between).
C5_FailureLeavesStateUnchanged ==
  [][\A i \in DOMAIN inflight :
       (/\ inflight[i].kind \in WorkflowKinds
        /\ ~inflight[i].ghost.reset
        /\ ~inflight[i].ghost.edited
        /\ inflight' = RemoveAt(inflight, i)
        /\ lastOp' \in {"scanFail", "previewFail", "applyFail"})
       => /\ step' = inflight[i].ghost.snap.step
          /\ scanResults' = inflight[i].ghost.snap.scanResults
          /\ previewResults' = inflight[i].ghost.snap.previewResults
          /\ applyResults' = inflight[i].ghost.snap.applyResults
          /\ selectedChanges' = inflight[i].ghost.snap.selectedChanges
    ]_vars

\* C6: a non-2xx response to the apply call stores no apply result and leaves
\* the step where it was.
C6_ApplyNon2xxIsFailure ==
  [][lastOp' = "applyNon2xx" => UNCHANGED <<step, applyResults>>]_vars

\* C7: while a scan, preview or apply call is outstanding no second one is
\* issued: at most one is in flight, and a click on any of the three buttons
\* is refused.
C7_NoSecondCall ==
  /\ Cardinality(WorkflowCalls) <= 1
  /\ WorkflowCalls # {} =>
       /\ ~ENABLED handleScan
       /\ ~ENABLED handlePreview
       /\ ~ENABLED handleApply

\* C7 witness: a call is outstanding while the form holds everything a scan
\* and a preview need, and another call could still be issued.
C7_Witness ==
  /\ WorkflowCalls # {}
  /\ ~ScanRefused
  /\ ~PreviewRefused
  /\ CanIssue

\* C8: at most one call started by the user (entry load, scan, preview,
\* apply) is outstanding.
C8_OneUserCallInFlight ==
  Cardinality({i \in DOMAIN inflight : inflight[i].kind # "contentTypes"}) <= 1

\* C9: every field name the ledger holds under an entryUid is the field of a
\* change of the current preview entry of that entryUid.
C9_LedgerRefersToPreview ==
  \A entryUid \in DOMAIN selectedChanges :
    \A f \in LedgerFields(selectedChanges, entryUid) :
      \E i \in DOMAIN previewResults :
        /\ previewResults[i].entryUid = entryUid
        /\ \E j \in DOMAIN previewResults[i].changes :
             previewResults[i].changes[j].field = f

\* C10: reset is enabled in every state and issues no call; right after it
\* the step is select and content type, entries, selected entries, ledger,
\* scan, preview and apply results, both texts and the smart flag are empty.
C10_ResetClearsAll ==
  [][/\ ENABLED resetFlow
     /\ lastOp' = "reset" =>
          /\ step' = "select"
          /\ selectedContentType' = ""
          /\ entries' = <<>>
          /\ selectedEntries' = <<>>
          /\ selectedChanges' = <<>>
          /\ scanResults' = <<>>
          /\ previewResults' = <<>>
          /\ applyResults' = NULL
          /\ searchQuery' = <<>>
          /\ replaceWith' = <<>>
          /\ isSmartReplace' = FALSE
          /\ Len(inflight') = Len(inflight)
          /\ \A i \in DOMAIN inflight : inflight'[i].kind = inflight[i].kind
    ]_vars

\* C10 witness: reset has just run while an apply call was in flight.
C10_Witness ==
  /\ lastOp = "reset"
  /\ \E i \in DOMAIN inflight : inflight[i].kind = "apply"

\* The scan guard of the workflow, of a content type, a pattern and a list of
\* selected entries.
ScanGuard(ct, pattern, uids) ==
  /\ ct # ""
  /\ \E k \in DOMAIN pattern : pattern[k] # SP
  /\ Len(uids) >= 1

\* Everything but the history variable is left as it was.
NothingChanges ==
  UNCHANGED <<contentTypes, selectedContentType, entries, selectedEntries,
              searchQuery, replaceWith, isSmartReplace, scanResults,
              previewResults, applyResults, loading, step, selectedChanges,
              inflight, world>>

\* A call of this kind is issued by the step.
Issues(kind) ==
  /\ Len(inflight') = Len(inflight) + 1
  /\ inflight'[Len(inflight')].kind = kind

\* C11: a scan request made while a content type is chosen, the pattern has
\* a character that is not white space and an entry is selected issues one
\* scan call carrying these three; made otherwise it changes nothing.  A scan
\* call is issued by nothing else, and the step becomes scan only when the
\* answer to such a call arrives.
C11_ScanOnlyUnderGuard ==
  [][/\ lastOp' \in {"scanRequested", "scanRefused"} =>
          IF ScanGuard(selectedContentType, searchQuery, selectedEntries)
          THEN /\ lastOp' = "scanRequested"
               /\ Issues("scan")
               /\ inflight'[Len(inflight')].contentTypeUid = selectedContentType
               /\ inflight'[Len(inflight')].query = searchQuery
               /\ inflight'[Len(inflight')].entryUids = selectedEntries
          ELSE /\ lastOp' = "scanRefused"
               /\ NothingChanges
     /\ Issues("scan") =>
          /\ lastOp' = "scanRequested"
          /\ ScanGuard(selectedContentType, searchQuery, selectedEntries)
     /\ step # "scan" /\ step' = "scan" =>
          \E i \in DOMAIN inflight :
            /\ inflight[i].kind = "scan"
            /\ inflight' = RemoveAt(inflight, i)
            /\ ScanGuard(inflight[i].contentTypeUid, inflight[i].query,
                         inflight[i].entryUids)
    ]_vars

\* C11 witness: a scan was requested with a content type chosen and an entry
\* selected but a pattern of white space only, and was refused.
C11_Witness ==
  /\ lastOp = "scanRefused"
  /\ selectedContentType # ""
  /\ Len(selectedEntries) >= 1
  /\ searchQuery # <<>>
  /\ inflight = <<>>
  /\ step = "select"

\* The field names of the changes of a list that are not rejected, in order.
NotRejectedFields(changes) ==
  LET kept == SelectSeq(changes, LAMBDA c : c.brandkit_approved # "false")
  IN [k \in DOMAIN kept |-> kept[k].field]

\* C12: a preview request made while the scan guard holds and the replacement
\* text has a character that is not white space issues one preview call;
\* made otherwise it changes nothing.  A preview call is issued by nothing
\* else, and the step becomes preview only when the answer to such a call
\* arrives.  A successful answer leaves the step at preview, the preview list
\* a response to the entries asked for, and the ledger with exactly the
\* entries of that list, each seeded with its fields that are not rejected.
C12_PreviewOnlyUnderGuard ==
  [][/\ lastOp' \in {"previewRequested", "previewRefused"} =>
          IF /\ ScanGuard(selectedContentType, searchQuery, selectedEntries)
             /\ \E k \in DOMAIN replaceWith : replaceWith[k] # SP
          THEN /\ lastOp' = "previewRequested"
               /\ Issues("preview")
          ELSE /\ lastOp' = "previewRefused"
               /\ NothingChanges
     /\ Issues("preview") =>
          /\ lastOp' = "previewRequested"
          /\ ScanGuard(selectedContentType, searchQuery, selectedEntries)
          /\ \E k \in DOMAIN replaceWith : replaceWith[k] # SP
     /\ step # "preview" /\ step' = "preview" =>
          \E i \in DOMAIN inflight :
            /\ inflight[i].kind = "preview"
            /\ inflight' = RemoveAt(inflight, i)
            /\ ScanGuard(inflight[i].contentTypeUid, inflight[i].query,
                         inflight[i].entryUids)
            /\ \E k \in DOMAIN inflight[i].replaceWith :
                 inflight[i].replaceWith[k] # SP
     /\ lastOp' = "previewOk" =>
          /\ step' = "preview"
          /\ \E i \in DOMAIN inflight :
               /\ inflight[i].kind = "preview"
               /\ inflight' = RemoveAt(inflight, i)
               /\ previewResults' \in PreviewBodies(inflight[i].entryUids)
          /\ DOMAIN selectedChanges'
               = {previewResults'[k].entryUid : k \in DOMAIN previewResults'}
          /\ \A k \in DOMAIN previewResults' :
               selectedChanges'[previewResults'[k].entryUid]
                 = NotRejectedFields(previewResults'[k].changes)
    ]_vars

\* C12 witness: a preview has just succeeded with an empty list while the
\* ledger of an earlier preview held an entry: the ledger is empty now.
C12_Witness ==
  /\ lastOp = "previewOk"
  /\ step = "preview"
  /\ previewResults = <<>>
  /\ selectedChanges = <<>>
  /\ \E i \in DOMAIN inflight :
       /\ inflight[i].kind = "preview"
       /\ inflight[i].ghost.snap.selectedChanges # <<>>

\* C13: the step becomes scan only from select, preview only from select or
\* scan, apply only from preview, and select only by a reset.
C13_StagesInOrder ==
  [][step' # step =>
       \/ step' = "scan" /\ step = "select"
       \/ step' = "preview" /\ step \in {"select", "scan"}
       \/ step' = "apply" /\ step = "preview"
       \/ step' = "select" /\ lastOp' = "reset"
    ]_vars

LedgerPairsInPreview(previews, ledger) ==
  {p \in UNION {{<<e, f>> : f \in LedgerFields(ledger, e)} : e \in DOMAIN ledger} :
     \E i \in DOMAIN previews :
       /\ previews[i].entryUid = p[1]
       /\ \E j \in DOMAIN previews[i].changes : previews[i].changes[j].field = p[2]}

\* The ledger has an entryUid with a non-empty field sequence.
HasSelection(ledger) == \E e \in DOMAIN ledger : ledger[e] # <<>>

\* C15 as stated: the commit payload is empty if and only if the ledger has
\* no entryUid with a non-empty field sequence.
C15_EmptyIffLedgerEmpty ==
  (changesToApply(previewResults, selectedChanges) = <<>>)
    <=> ~HasSelection(selectedChanges)

\* C15, amended: the commit payload is empty if and only if no (entryUid,
\* field name) pair of the ledger exists in the preview list; an apply
\* request returns without a call exactly in that case.
C15_EmptyIffNoPairInPreview ==
  /\ (changesToApply(previewResults, selectedChanges) = <<>>)
       <=> (LedgerPairsInPreview(previewResults, selectedChanges) = {})
  /\ lastOp = "applyEmpty" =>
       LedgerPairsInPreview(previewResults, selectedChanges) = {}
  /\ lastOp = "applyRequested" =>
       \A k \in DOMAIN inflight :
         inflight[k].kind = "apply" =>
           LedgerPairsInPreview(inflight[k].ghost.snap.previewResults,
                                inflight[k].ghost.snap.selectedChanges) # {}

\* C15 witness: an apply request has just returned without a call although
\* the ledger holds field names and the preview list has changes: none of the
\* selected names is a field of the preview entry of its entryUid.
C15_Witness ==
  /\ lastOp = "applyEmpty"
  /\ HasSelection(selectedChanges)
  /\ \E i \in DOMAIN previewResults : previewResults[i].changes # <<>>

\* C16: when the ledger has a selection, the commit payload has as many
\* items as there are (entryUid, field name) pairs of the ledger that exist
\* in the preview list: of the current state, and of every apply call sent.
C16_PayloadLength ==
  /\ HasSelection(selectedChanges) =>
       Len(changesToApply(previewResults, selectedChanges))
         = Cardinality(LedgerPairsInPreview(previewResults, selectedChanges))
  /\ \A k \in DOMAIN inflight :
       (/\ inflight[k].kind = "apply"
        /\ HasSelection(inflight[k].ghost.snap.selectedChanges))
       => Len(inflight[k].changes)
            = Cardinality(LedgerPairsInPreview(inflight[k].ghost.snap.previewResults,
                                               inflight[k].ghost.snap.selectedChanges))

\* C16 witness: an apply call was just sent with two items, of two entries,
\* from a ledger that holds one field name twice and one name that is no
\* field of its preview entry.
C16_Witness ==
  /\ lastOp = "applyRequested"
  /\ \E k \in DOMAIN inflight :
       /\ inflight[k].kind = "apply"
       /\ Len(inflight[k].changes) = 2
       /\ inflight[k].changes[1].entryUid # inflight[k].changes[2].entryUid
  /\ \E e \in DOMAIN selectedChanges :
       /\ Len(selectedChanges[e]) = 2
       /\ selectedChanges[e][1] = selectedChanges[e][2]
  /\ \E e \in DOMAIN selectedChanges :
       \E f \in LedgerFields(selectedChanges, e) :
         <<e, f>> \notin LedgerPairsInPreview(previewResults, selectedChanges)

\* C17: selecting a field that was just selected changes nothing for its
\* entry: when the ledger is what toggleField(e, f, true) yields and
\* toggleField(e, f, true) is called again, the ledger entry of e stays as
\* it is.
C17_ToggleOnIdempotent ==
  [][\A e \in Range(entries), f \in Fields :
       (/\ lastOp = "toggleField"
        /\ lastOp' = "toggleField"
        /\ e \in DOMAIN selectedChanges
        /\ selectedChanges[e] # <<>>
        /\ selectedChanges[e][Len(selectedChanges[e])] = f
        /\ selectedChanges' = ToggledLedger(selectedChanges, e, f, TRUE))
       => selectedChanges'[e] = selectedChanges[e]
    ]_vars

\* C18: no ledger entry holds a field name twice.
C18_NoDuplicateFields ==
  \A e \in DOMAIN selectedChanges :
    \A m, n \in DOMAIN selectedChanges[e] :
      selectedChanges[e][m] = selectedChanges[e][n] => m = n

\* C18 witness: the user has just ticked a change back on, in an entry whose
\* ledger entry now holds two field names.
C18_Witness ==
  /\ lastOp = "toggle"
  /\ \E e \in DOMAIN selectedChanges : Len(selectedChanges[e]) = 2

\* C19: after toggleField(e, f, true), for a field f whose change in the
\* preview entry e is rejected, f is in the ledger entry of e and the commit
\* payload has the item of e, f and the after text of that change.
C19_ToggleIgnoresPolicy ==
  [][lastOp' = "toggleField" =>
       \A i \in DOMAIN previewResults :
         \A j \in DOMAIN previewResults[i].changes :
           LET e == previewResults[i].entryUid
               c == previewResults[i].changes[j]
           IN (/\ c.brandkit_approved = "false"
               /\ selectedChanges' = ToggledLedger(selectedChanges, e, c.field, TRUE))
              => /\ e \in DOMAIN selectedChanges'
                 /\ \E n \in DOMAIN selectedChanges'[e] :
                      selectedChanges'[e][n] = c.field
                 /\ \E n \in DOMAIN changesToApply(previewResults', selectedChanges') :
                      changesToApply(previewResults', selectedChanges')[n]
                        = [entryUid |-> e, field |-> c.field, newValue |-> c.after]
    ]_vars

\* C19 witness: toggleField has just added the field of a rejected change,
\* which the ledger entry did not hold before.
C19_Witness ==
  /\ lastOp = "toggleField"
  /\ \E i \in DOMAIN previewResults :
       \E j \in DOMAIN previewResults[i].changes :
         LET e == previewResults[i].entryUid
             c == previewResults[i].changes[j]
         IN /\ c.brandkit_approved = "false"
            /\ e \in DOMAIN selectedChanges
            /\ selectedChanges[e] # <<>>
            /\ selectedChanges[e][Len(selectedChanges[e])] = c.field
            /\ \A n \in 1..(Len(selectedChanges[e]) - 1) :
                 selectedChanges[e][n] # c.field

\* C20: after selectAllForEntry(entry, true), whatever the ledger was, the
\* selected count of the entry equals its approvable count, which is the
\* number of its changes that are not rejected, and its select-all control
\* shows checked exactly when that count is above zero.
C20_SelectAllCounts ==
  [][lastOp' = "selectAllForEntry" =>
       \A i \in DOMAIN previewResults :
         LET entry == previewResults[i]
         IN selectedChanges' = SelectAllLedger(selectedChanges, entry, TRUE)
            => /\ selectedCount(entry)' = totalApprovable(entry)
               /\ totalApprovable(entry)
                    = Cardinality({j \in DOMAIN entry.changes :
                                     entry.changes[j].brandkit_approved # "false"})
               /\ isAllForEntrySelected(entry)' <=> (selectedCount(entry)' > 0)
    ]_vars

\* C20 witness: select-all has just run on an entry with a rejected change
\* and a change that is not, and the ledger entry holds the one field.
C20_Witness ==
  /\ lastOp = "selectAllForEntry"
  /\ \E i \in DOMAIN previewResults :
       LET entry == previewResults[i]
       IN /\ Len(entry.changes) = 2
          /\ \E j \in DOMAIN entry.changes : entry.changes[j].brandkit_approved = "false"
          /\ totalApprovable(entry) = 1
          /\ isAllForEntrySelected(entry)

\* Two ledgers agree on every entryUid but e: the same entries are present
\* and they hold the same field sequences.
SameOutside(ledgerA, ledgerB, e) ==
  /\ (DOMAIN ledgerA) \ {e} = (DOMAIN ledgerB) \ {e}
  /\ \A u \in (DOMAIN ledgerA) \ {e} : ledgerA[u] = ledgerB[u]

\* C21: selectAllForEntry(entry, selected) leaves the ledger entry of the
\* entry holding exactly the field names of its changes that are not
\* rejected, in change order, when selected is true, and holding nothing when
\* it is false, whatever the entry held before; every other ledger entry is
\* as it was.
C21_SelectAllFrame ==
  [][lastOp' = "selectAllForEntry" =>
       \A i \in DOMAIN previewResults :
         \A checked \in BOOLEAN :
           LET entry == previewResults[i]
           IN selectedChanges' = SelectAllLedger(selectedChanges, entry, checked)
              => /\ entry.entryUid \in DOMAIN selectedChanges'
                 /\ selectedChanges'[entry.entryUid]
                      = (IF checked THEN NotRejectedFields(entry.changes) ELSE <<>>)
                 /\ SameOutside(selectedChanges', selectedChanges, entry.entryUid)
    ]_vars

\* C21 witness: select-all has just run on an entry with a rejected change;
\* its ledger entry holds its one field that is not rejected, while the
\* ledger entry of the other entry still names a field twice.
C21_Witness ==
  /\ lastOp = "selectAllForEntry"
  /\ \E i \in DOMAIN previewResults :
       LET entry == previewResults[i]
       IN /\ \E j \in DOMAIN entry.changes : entry.changes[j].brandkit_approved = "false"
          /\ entry.entryUid \in DOMAIN selectedChanges
          /\ Len(selectedChanges[entry.entryUid]) = 1
          /\ selectedChanges[entry.entryUid] = NotRejectedFields(entry.changes)
          /\ \E u \in (DOMAIN selectedChanges) \ {entry.entryUid} :
               /\ Len(selectedChanges[u]) = 2
               /\ selectedChanges[u][1] = selectedChanges[u][2]

\* C26: toggleField(e, f, selected) leaves f a member of the ledger entry of
\* e when selected is true and not a member when it is false; whether any
\* other field name is a member of that entry, and every other ledger entry,
\* is as it was.
C26_ToggleFrame ==
  [][lastOp' = "toggleField" =>
       \A e \in Range(entries), f \in Fields, checked \in BOOLEAN :
         selectedChanges' = ToggledLedger(selectedChanges, e, f, checked)
         => /\ e \in DOMAIN selectedChanges'
            /\ (f \in LedgerFields(selectedChanges', e)) <=> checked
            /\ \A g \in Fields \ {f} :
                 (g \in LedgerFields(selectedChanges', e))
                   <=> (g \in LedgerFields(selectedChanges, e))
            /\ SameOutside(selectedChanges', selectedChanges, e)
    ]_vars

\* C26 witness: toggleField has just taken a field name out of a ledger
\* entry that still holds the other name, while the other entry holds names
\* too.
C26_Witness ==
  /\ lastOp = "toggleField"
  /\ \E e \in DOMAIN selectedChanges :
       /\ Cardinality(LedgerFields(selectedChanges, e)) = 1
       /\ \E u \in (DOMAIN selectedChanges) \ {e} : selectedChanges[u] # <<>>

\* C22: a successful preview leaves the ledger equal to the seed of its
\* response alone, whatever an earlier preview and the user's toggles left in
\* it: the ledger has an entry for exactly the entries of the response, and
\* the entry of each holds exactly the fields of its changes that are not
\* rejected, so no entryUid and no field name of the earlier ledger remains
\* unless the response brings it.
C22_SecondPreviewReplaces ==
  [][lastOp' = "previewOk" =>
       /\ \A e \in DOMAIN selectedChanges' :
            \E k \in DOMAIN previewResults' :
              /\ previewResults'[k].entryUid = e
              /\ \A n \in DOMAIN selectedChanges'[e] :
                   \E j \in DOMAIN previewResults'[k].changes :
                     /\ previewResults'[k].changes[j].field = selectedChanges'[e][n]
                     /\ previewResults'[k].changes[j].brandkit_approved # "false"
       /\ \A k \in DOMAIN previewResults' :
            /\ previewResults'[k].entryUid \in DOMAIN selectedChanges'
            /\ selectedChanges'[previewResults'[k].entryUid]
                 = NotRejectedFields(previewResults'[k].changes)
    ]_vars

\* C22 witness: a preview has just succeeded and its seed is not empty, and
\* a preview call requested after an earlier preview is still outstanding
\* whose snapshot shows what the ledger held then: under an entryUid the
\* ledger still has, a field name that it has no more.
C22_Witness ==
  /\ lastOp = "previewOk"
  /\ \E i \in DOMAIN inflight :
       /\ inflight[i].kind = "preview"
       /\ LET before == inflight[i].ghost.snap.selectedChanges
          IN \E e \in DOMAIN before :
               /\ e \in DOMAIN selectedChanges
               /\ selectedChanges[e] # <<>>
               /\ \E n \in DOMAIN before[e] :
                    before[e][n] \notin LedgerFields(selectedChanges, e)

\* group holds the records of a list that have a status, all of them and
\* nothing else, in the order of the list.
IsGroupOf(group, records, status) ==
  LET idx == {i \in DOMAIN records : records[i].status = status}
      rank(i) == Cardinality({j \in idx : j <= i})
  IN /\ Len(group) = Cardinality(idx)
     /\ \A i \in idx : group[rank(i)] = records[i]

\* C23: of the stored apply result, the updated group and the failed group
\* of the summary hold the records of that status in their original order,
\* every record is in one of the two, and the toast reports totalUpdated as
\* received and the size of the failed group.
C23_SummaryPartition ==
  lastOp = "applyOk" =>
    /\ IsGroupOf(updatedEntries(applyResults), applyResults.results, "updated")
    /\ IsGroupOf(failedEntries(applyResults), applyResults.results, "failed")
    /\ Len(updatedEntries(applyResults)) + Len(failedEntries(applyResults))
         = Len(applyResults.results)
    /\ applyToast(applyResults).entriesUpdated = applyResults.totalUpdated
    /\ applyToast(applyResults).failed = Len(failedEntries(applyResults))

\* C23 witness: the apply result just stored has two records, the first
\* failed and the second updated, and a totalUpdated of two.
C23_Witness ==
  /\ lastOp = "applyOk"
  /\ step = "apply"
  /\ Len(applyResults.results) = 2
  /\ applyResults.results[1].status = "failed"
  /\ applyResults.results[2].status = "updated"
  /\ applyResults.totalUpdated = 2

\* C24: neither the request of a scan nor the storing of its response
\* changes the selected content type, the selected entries, the two texts or
\* the ledger; with the response stored the step is scan and the ledger is
\* the one of the request, unless the user toggled changes or reset the
\* workflow in between.
C24_ScanKeepsSelections ==
  [][/\ lastOp' \in {"scanRequested", "scanOk"} =>
          UNCHANGED <<selectedContentType, selectedEntries, searchQuery,
                      replaceWith, selectedChanges>>
     /\ lastOp' = "scanRequested" =>
          /\ Issues("scan")
          /\ inflight'[Len(inflight')].ghost.snap.selectedChanges = selectedChanges
     /\ lastOp' = "scanOk" =>
          \E i \in DOMAIN inflight :
            /\ inflight[i].kind = "scan"
            /\ inflight' = RemoveAt(inflight, i)
            /\ step' = "scan"
            /\ (~inflight[i].ghost.reset /\ ~inflight[i].ghost.edited) =>
                 selectedChanges' = inflight[i].ghost.snap.selectedChanges
    ]_vars

\* C24 witness: a scan response has just been stored while a preview of
\* before had left names in the ledger; content type, entries, texts and
\* ledger are all still there.
C24_Witness ==
  /\ lastOp = "scanOk"
  /\ step = "scan"
  /\ scanResults # <<>>
  /\ selectedContentType # ""
  /\ selectedEntries # <<>>
  /\ searchQuery # <<>>
  /\ replaceWith # <<>>
  /\ HasSelection(selectedChanges)

\* C25: with a scan response stored, the count the scan panel shows is the
\* number of matches stored; every entryUid with a match has exactly one
\* group, no group is of another entryUid, the group of an entryUid holds
\* the matches of that entryUid, all of them and in their order, and the
\* group sizes add up to the count.
C25_ScanGroups ==
  lastOp = "scanOk" =>
    LET groups == groupedScanResults
        uids == {scanResults[i].entryUid : i \in DOMAIN scanResults}
    IN /\ scanResultsCount = Len(scanResults)
       /\ \A u \in uids : Cardinality({k \in DOMAIN groups : groups[k].uid = u}) = 1
       /\ \A k \in DOMAIN groups : groups[k].uid \in uids
       /\ \A k \in DOMAIN groups :
            LET idx == {i \in DOMAIN scanResults :
                          scanResults[i].entryUid = groups[k].uid}
            IN /\ Len(groups[k].matches) = Cardinality(idx)
               /\ \A i \in idx :
                    groups[k].matches[Cardinality({j \in idx : j <= i})]
                      = scanResults[i]
       /\ Cardinality({p \in (DOMAIN groups) \X (DOMAIN scanResults) :
                         p[2] \in DOMAIN groups[p[1]].matches})
            = scanResultsCount

\* C25 witness: the response just stored has three matches, the first and
\* the third of one entry and the second of the other.
C25_Witness ==
  /\ lastOp = "scanOk"
  /\ step = "scan"
  /\ Len(scanResults) = 3
  /\ scanResults[1].entryUid = scanResults[3].entryUid
  /\ scanResults[1].entryUid # scanResults[2].entryUid
  /\ scanResults[1].field # scanResults[3].field

\* C27: the content type sent with an apply call is the one that was sent
\* with the preview call that produced the preview list.  Under
\* SpecAfterPreview that preview call is the one for the first content type:
\* no other preview is requested.
C27_ApplyCategoryIsPreviewCategory ==
  \A k \in DOMAIN inflight :
    inflight[k].kind = "apply" => inflight[k].contentTypeUid = CategoryList[1]

\* C28: whenever the step is apply an apply result is stored.
C28_ApplyStepHasResult ==
  step = "apply" => applyResults # NULL

EntriesCalls == {i \in DOMAIN inflight : inflight[i].kind = "entries"}

\* The entry ids of every scan or preview call belong to the content type
\* of the call.
CallEntriesOfCategory ==
  \A i \in DOMAIN inflight :
    inflight[i].kind \in {"scan", "preview"}
      => \A k \in DOMAIN inflight[i].entryUids :
           Includes(EntriesOf(inflight[i].contentTypeUid), inflight[i].entryUids[k])

\* C29: when entry loads overlap and all have been answered, the listed
\* entries are those of the selected content type; and every entry id sent
\* with a scan or preview call belongs to the content type sent with it.
C29_EntriesMatchCategory ==
  /\ (selectedContentType # "" /\ EntriesCalls = {})
       => entries = EntriesOf(selectedContentType)
  /\ CallEntriesOfCategory

\* C30: the busy flag is true exactly while a scan, preview or apply call is
\* outstanding: it is set once a call has been requested, it is clear once a
\* call has been answered or has failed and once handleApply has returned on
\* an empty payload, and it is still set after a resetFlow made while a call
\* is in flight.
C30_BusyWhileOutstanding ==
  /\ loading <=> WorkflowCalls # {}
  /\ lastOp \in {"scanRequested", "previewRequested", "applyRequested"}
       => loading
  /\ lastOp \in {"scanOk", "scanFail", "previewOk", "previewFail",
                 "applyOk", "applyNon2xx", "applyFail", "applyEmpty"}
       => ~loading
  /\ (lastOp = "reset" /\ WorkflowCalls # {}) => loading

\* C30 witness: resetFlow has just run while a call is outstanding, and the
\* busy flag is still set.
C30_Witness ==
  /\ lastOp = "reset"
  /\ WorkflowCalls # {}
  /\ loading

====
